---- MODULE Spec2Model ----
(***************************************************************************)
(* Model of the "chat with your PDF" service (src/app/main.py) and of the  *)
(* Gradio front end that drives it (src/gradio_ui.py).                     *)
(*                                                                         *)
(* The server keeps two module globals, vector_store and rag_chain, an     *)
(* in-process Chroma client holding every collection ever created, and a   *)
(* temporary directory TEMP_DIR.  Both endpoints are "async def"           *)
(* coroutines whose bodies contain no await: once the event loop has       *)
(* entered a handler it runs it to its return or raise before it enters    *)
(* another one.  A request is in flight from its arrival (the framework    *)
(* receives and parses the body) until its handler has finished.           *)
(***************************************************************************)
EXTENDS Naturals, Sequences, FiniteSets

\* ---------------------------------------------------------------- bounds
\* Number of HTTP requests (from the UI and from other API clients together).
MaxReq == 3
\* Number of distinct PDF documents a client may upload.
MaxDoc == 2

Docs == 1..MaxDoc

VARIABLES
    vector_store,   \* global vector_store: 0 (None) or the id of a collection
    rag_chain,      \* global rag_chain: NoChain (None) or a chain record
    collections,    \* the in-memory Chroma client: collection id -> contents
    disk,           \* the files under TEMP_DIR: [path, by], by the request that wrote it
    req,            \* the requests received so far, in arrival order
    running,        \* requests whose handler has been entered and has not finished
    lastOK,         \* the upload that most recently returned success (0: none)
    lastUp,         \* the upload whose handler finished most recently (0: none)
    ui_enabled,     \* interactive flag of question_box and ask_button
    ui_up,          \* the /upload the UI's upload_pdf is waiting on (0: none)
    ui_last         \* how the last upload_pdf call ended

vars == <<vector_store, rag_chain, collections, disk, req, running,
          lastOK, lastUp, ui_enabled, ui_up, ui_last>>

server == <<vector_store, rag_chain, collections, disk, running, lastOK, lastUp>>
ui == <<ui_enabled, ui_up, ui_last>>

\* rag_chain = None
NoChain == [db |-> 0, by |-> 0]

\* The value create_rag_chain returns: a retrieval chain whose retriever is
\* bound to the Chroma object db it was given; by is the request that built it.
Chain(db, r) == [db |-> db, by |-> r]

Session == <<vector_store, rag_chain>>

\* ------------------------------------------------------------- requests
Reqs == 1..Len(req)

\* A request as it arrives; requests are numbered in the order they arrive.
\* pre is the Session found when the handler is entered, ran the pipeline
\* steps the handler called, wrote whether it wrote a file under TEMP_DIR,
\* exc the exception raised in its try block, vs the collection its
\* create_vector_store returned, used/got/okAt what an /ask found (the chain
\* it invoked, the documents indexed in that chain's collection, and the
\* upload that had last returned success at that moment).
NewReq(kind, src, ctype, size, doc) ==
    [kind |-> kind, src |-> src, ctype |-> ctype, size |-> size, doc |-> doc,
     pc |-> "pending", exc |-> "none", status |-> 0, detail |-> "none",
     pre |-> <<0, NoChain>>, ran |-> {}, wrote |-> FALSE, vs |-> 0,
     used |-> NoChain, got |-> {}, okAt |-> 0]

Init ==
    /\ vector_store = 0
    /\ rag_chain = NoChain
    /\ collections = <<>>
    /\ disk = {}
    /\ req = <<>>
    /\ running = {}
    /\ lastOK = 0
    /\ lastUp = 0
    /\ ui_enabled = FALSE
    /\ ui_up = 0
    /\ ui_last = "none"

\* ------------------------------------------------------------ scheduling
\* Variant: handlers that yield to the event loop (an await in their bodies),
\* so that one may be entered while another is running.
WouldInterleave == TRUE

\* upload_document and ask_question are coroutines with no await in their
\* bodies: the event loop enters a handler only when no other handler is
\* running, and runs it to its end.
MayStart == running = {}

\* The handler of r has finished: the response (or the raised HTTPException)
\* is what the client gets.
Finish(r, rec) ==
    /\ req' = [req EXCEPT ![r] = [rec EXCEPT !.pc = "done"]]
    /\ running' = running \ {r}
    /\ lastUp' = IF rec.kind = "upload" THEN r ELSE lastUp
    /\ lastOK' = IF rec.kind = "upload" /\ rec.status = 200 THEN r ELSE lastOK

\* ------------------------------------------------------- error handling
\* Variant: no ResourceExhausted clause, the quota error falls to the generic one.
Quota500(exc) ==
    IF exc = "HTTPException" THEN [status |-> 400, detail |-> "empty"]
    ELSE [status |-> 500, detail |-> "unexpected"]

\* The except clauses of upload_document.  The only HTTPException raised
\* inside its try block is the empty-file one, which is re-raised as it is.
UploadExcept(exc) ==
    IF exc = "ResourceExhausted" THEN [status |-> 400, detail |-> "quota"]
    ELSE IF exc = "HTTPException" THEN [status |-> 400, detail |-> "empty"]
    ELSE [status |-> 500, detail |-> "unexpected"]

\* The except clauses of ask_question.
AskExcept(exc) ==
    IF exc = "ResourceExhausted" THEN [status |-> 400, detail |-> "quota"]
    ELSE [status |-> 500, detail |-> "unexpected"]

\* An exception raised inside the try block of upload_document: the matching
\* except clause makes the response.
Raised(rec, exc) ==
    [rec EXCEPT !.exc = exc, !.status = UploadExcept(exc).status,
                !.detail = UploadExcept(exc).detail]

\* -------------------------------------------------------------- /upload
\* file_path = os.path.join(TEMP_DIR, safe_filename): one name per document.
FilePath(r) == req[r].doc

\* file.content_type != "application/pdf" is false
IsPdf(r) == req[r].ctype = "pdf"

\* Variant: no size check.
SizeUnchecked(r) == FALSE

\* file_size == 0
IsEmpty(r) == req[r].size = 0

\* Variant: the file is removed after the pipeline instead of in a finally clause.
CleanupOnSuccessOnly(r, rec) ==
    IF rec.status = 200 THEN {f \in disk : f.path # FilePath(r)} ELSE disk

\* finally: if file_path and os.path.exists(file_path): os.remove(file_path)
Cleanup(r, rec) == {f \in disk : f.path # FilePath(r)}

\* The handler leaves its try block with the response rec (made by the
\* return or by an except clause): the finally clause runs, then the
\* response goes out.
Leave(r, rec) ==
    /\ disk' = Cleanup(r, rec)
    /\ Finish(r, rec)

\* The handler is entered and runs up to the call of create_vector_store.
\* A content type other than application/pdf is rejected before the try
\* block: no file is written and no finally clause runs.  Otherwise the
\* upload is saved under TEMP_DIR (the local write is taken to succeed), an
\* empty file is rejected with HTTPException(400), and load_and_split_pdf
\* is called (PyPDFLoader or the splitter may raise).
UploadStart(r) ==
    /\ req[r].kind = "upload" /\ req[r].pc = "pending"
    /\ MayStart
    /\ LET rec == [req[r] EXCEPT !.pre = Session] IN
       IF ~IsPdf(r)
       THEN /\ Finish(r, [rec EXCEPT !.status = 400, !.detail = "invalid_type"])
            /\ disk' = disk
       ELSE \E exc \in {"none", "Exception"} :
              LET wrote == [rec EXCEPT !.wrote = TRUE]
                  loaded == [wrote EXCEPT !.ran = @ \cup {"load"}]
              IN IF IsEmpty(r)
                 THEN exc = "none" /\ Leave(r, Raised(wrote, "HTTPException"))
                 ELSE IF exc # "none"
                 THEN Leave(r, Raised(loaded, exc))
                 ELSE /\ req' = [req EXCEPT ![r] = [loaded EXCEPT !.pc = "store"]]
                      /\ disk' = {f \in disk : f.path # FilePath(r)}
                                 \cup {[path |-> FilePath(r), by |-> r]}
                      /\ running' = running \cup {r}
                      /\ UNCHANGED <<lastUp, lastOK>>
    /\ UNCHANGED <<vector_store, rag_chain, collections>>
    /\ UNCHANGED ui

\* Variant: one collection name for every upload, as a constant "pdf_chat"
\* would be.
SameCollectionName == IF collections = <<>> THEN Len(collections) + 1 ELSE Len(collections)

\* collection_name = f"pdf_chat_{uuid.uuid4()}": a name no collection has yet.
CollectionName == Len(collections) + 1

\* Chroma(collection_name = name, ...) gets the collection of that name from
\* the in-process client, creating it empty when there is none.
GetOrCreate(name, r) ==
    IF name \in 1..Len(collections) THEN collections
    ELSE Append(collections, [docs |-> {}, by |-> r, populated |-> FALSE])

\* db._collection.add(...): the chunks of the request's document are
\* appended to whatever the collection holds.
Added(colls, name, r) ==
    [colls EXCEPT ![name] = [docs |-> @.docs \cup {req[r].doc}, by |-> r,
                             populated |-> TRUE]]

\* vector_store = create_vector_store(chunks).  The collection is created,
\* then embed_documents is called (it may raise ResourceExhausted or another
\* error), then the entries are added; the global is assigned only when the
\* function returns.
UploadStore(r) ==
    /\ r \in running /\ req[r].kind = "upload" /\ req[r].pc = "store"
    /\ \E exc \in {"none", "ResourceExhausted", "Exception"} :
         LET name == CollectionName
             rec  == [req[r] EXCEPT !.ran = @ \cup {"store"}]
         IN IF exc = "none"
            THEN /\ collections' = Added(GetOrCreate(name, r), name, r)
                 /\ vector_store' = name
                 /\ req' = [req EXCEPT ![r] = [rec EXCEPT !.vs = name, !.pc = "chain"]]
                 /\ UNCHANGED <<disk, running, lastOK, lastUp>>
            ELSE /\ collections' = GetOrCreate(name, r)
                 /\ vector_store' = vector_store
                 /\ Leave(r, Raised(rec, exc))
    /\ UNCHANGED rag_chain
    /\ UNCHANGED ui

\* rag_chain = create_rag_chain(vector_store), then the success response.
\* create_rag_chain is given the global vector_store; building the LLM
\* client or the chain may raise.
UploadChain(r) ==
    /\ r \in running /\ req[r].kind = "upload" /\ req[r].pc = "chain"
    /\ \E exc \in {"none", "Exception"} :
         LET rec == [req[r] EXCEPT !.ran = @ \cup {"chain"}] IN
         IF exc = "none"
         THEN /\ rag_chain' = Chain(vector_store, r)
              /\ Leave(r, [rec EXCEPT !.status = 200, !.detail = "ok"])
         ELSE /\ rag_chain' = rag_chain
              /\ Leave(r, Raised(rec, exc))
    /\ UNCHANGED <<vector_store, collections>>
    /\ UNCHANGED ui

\* ----------------------------------------------------------------- /ask
\* Variant: the readiness check reads vector_store instead of rag_chain.
NotReadyByStore == vector_store = 0

\* rag_chain is None
NotReady == rag_chain = NoChain

\* The whole handler: the not-ready check, then
\* response = rag_chain.invoke({"input": question}): the retriever of the
\* chain queries the collection the chain was built over, then the LLM is
\* called.  Invoking None raises AttributeError (an Exception).
AskQuestion(r) ==
    /\ req[r].kind = "ask" /\ req[r].pc = "pending"
    /\ MayStart
    /\ LET rec == [req[r] EXCEPT !.pre = Session, !.okAt = lastOK] IN
       IF NotReady
       THEN Finish(r, [rec EXCEPT !.status = 400, !.detail = "not_ready"])
       ELSE \E out \in {"none", "ResourceExhausted", "Exception"} :
              LET exc == IF rag_chain = NoChain THEN "Exception" ELSE out
                  inv == IF rag_chain = NoChain THEN [rec EXCEPT !.ran = {"invoke"}]
                         ELSE [rec EXCEPT !.used = rag_chain,
                                          !.got = collections[rag_chain.db].docs,
                                          !.ran = {"invoke"}]
              IN Finish(r, IF exc = "none"
                           THEN [inv EXCEPT !.status = 200, !.detail = "ok"]
                           ELSE [inv EXCEPT !.exc = exc,
                                            !.status = AskExcept(exc).status,
                                            !.detail = AskExcept(exc).detail])
    /\ UNCHANGED <<vector_store, rag_chain, collections, disk>>
    /\ UNCHANGED ui

\* ------------------------------------------------------- other API clients
\* The files a client may send: a file that is no PDF, an empty PDF, and one
\* non-empty PDF per document.
Files ==
    {[ctype |-> "other", size |-> 1, doc |-> 1], [ctype |-> "pdf", size |-> 0, doc |-> 1]}
    \cup {[ctype |-> "pdf", size |-> 1, doc |-> d] : d \in Docs}

ApiUpload ==
    /\ Len(req) < MaxReq
    /\ \E f \in Files :
         req' = Append(req, NewReq("upload", "api", f.ctype, f.size, f.doc))
    /\ UNCHANGED server
    /\ UNCHANGED ui

ApiAsk ==
    /\ Len(req) < MaxReq
    /\ req' = Append(req, NewReq("ask", "api", "json", 1, 0))
    /\ UNCHANGED server
    /\ UNCHANGED ui

\* ------------------------------------------------------------ Browser UI
\* The question box and the Ask button take the same interactive flag from
\* every return of upload_pdf.
\* Variant: a failure return that leaves the controls interactive.
UiErrorEnables == TRUE

\* gr.update(interactive=False) of the three failure returns of upload_pdf
UiAfterFailure == FALSE

\* gr.update(interactive=True) of the success return of upload_pdf
UiAfterSuccess == TRUE

\* upload_pdf(None): no file selected.
UiUploadNoFile ==
    /\ ui_up = 0
    /\ ui_enabled' = UiAfterFailure
    /\ ui_last' = "nofile"
    /\ UNCHANGED <<ui_up, req>>
    /\ UNCHANGED server

\* requests.post(UPLOAD_URL, files={'file': (filename, f_in, 'application/pdf')}):
\* the content type sent is always application/pdf; the file may be empty.
UiUploadSend ==
    /\ ui_up = 0
    /\ Len(req) < MaxReq
    /\ \E f \in {g \in Files : g.ctype = "pdf"} :
         req' = Append(req, NewReq("upload", "ui", "pdf", f.size, f.doc))
    /\ ui_up' = Len(req) + 1
    /\ UNCHANGED <<ui_enabled, ui_last>>
    /\ UNCHANGED server

\* The response arrives: raise_for_status, then the success return or the
\* HTTPError return.
UiUploadResponse ==
    /\ ui_up # 0 /\ req[ui_up].pc = "done"
    /\ IF req[ui_up].status = 200
       THEN ui_enabled' = UiAfterSuccess /\ ui_last' = "success"
       ELSE ui_enabled' = UiAfterFailure /\ ui_last' = "http_error"
    /\ ui_up' = 0
    /\ UNCHANGED req
    /\ UNCHANGED server

\* timeout=60 expires (or the connection fails) before a response: the
\* generic except branch; the server goes on with the request.
UiUploadTimeout ==
    /\ ui_up # 0 /\ req[ui_up].pc # "done"
    /\ ui_enabled' = UiAfterFailure
    /\ ui_last' = "timeout"
    /\ ui_up' = 0
    /\ UNCHANGED req
    /\ UNCHANGED server

\* The Ask button or Enter in the question box, possible only while the
\* controls are interactive: handle_user_question calls ask_question, which
\* posts the question; what comes back changes the chat history only.
UiAskSend ==
    /\ ui_enabled
    /\ Len(req) < MaxReq
    /\ req' = Append(req, NewReq("ask", "ui", "json", 1, 0))
    /\ UNCHANGED ui
    /\ UNCHANGED server

\* ------------------------------------------------------------------ Next
\* The service and its API clients.
Next ==
    \/ ApiUpload
    \/ ApiAsk
    \/ \E r \in Reqs : UploadStart(r)
    \/ \E r \in Reqs : UploadStore(r)
    \/ \E r \in Reqs : UploadChain(r)
    \/ \E r \in Reqs : AskQuestion(r)

Spec == Init /\ [][Next]_vars

\* The service driven by one Browser UI, its only client.
NextUI ==
    \/ UiUploadNoFile
    \/ UiUploadSend
    \/ UiUploadResponse
    \/ UiUploadTimeout
    \/ UiAskSend
    \/ \E r \in Reqs : UploadStart(r)
    \/ \E r \in Reqs : UploadStore(r)
    \/ \E r \in Reqs : UploadChain(r)
    \/ \E r \in Reqs : AskQuestion(r)

SpecUI == Init /\ [][NextUI]_vars

\* ------------------------------------------------------------ properties
Uploads == {r \in Reqs : req[r].kind = "upload"}
Asks == {r \in Reqs : req[r].kind = "ask"}
Done(r) == req[r].pc = "done"
Succeeded(r) == Done(r) /\ req[r].status = 200

\* No upload_document handler is between its entry and its end.
NoUploadRunning == \A r \in running : req[r].kind # "upload"

\* The Session a successful upload produced.
SessionOf(u) == <<req[u].vs, Chain(req[u].vs, u)>>

\* The Session an upload found is the Session it leaves: stated in the state
\* its handler ends in, before another upload handler is entered.
LeftSessionAlone(u) == (lastUp = u /\ NoUploadRunning) => Session = req[u].pre

\* C1: an /upload that fails at any step of its pipeline (load_and_split_pdf,
\* create_vector_store, create_rag_chain) leaves both vector_store and
\* rag_chain with the values they had before the request.
C1_FailedUploadLeavesSession ==
    \A u \in Uploads :
        (Done(u) /\ req[u].status # 200 /\ req[u].ran # {}) => LeftSessionAlone(u)

\* C2: an /ask handled while no /upload has yet returned success is answered
\* 400 "No document has been processed" and never invokes the chain, whatever
\* failed or rejected uploads came before it.
C2_AskBeforeSuccessNotReady ==
    \A a \in Asks :
        (req[a].pc # "pending" /\ req[a].okAt = 0) =>
            /\ Done(a)
            /\ req[a].status = 400 /\ req[a].detail = "not_ready"
            /\ req[a].ran = {} /\ req[a].used = NoChain

\* C2 witness: an /ask got the not-ready answer after an upload had already
\* assigned vector_store and then failed in create_rag_chain.
C2_Witness ==
    \E a \in Asks, u \in Uploads :
        /\ Done(a) /\ req[a].detail = "not_ready"
        /\ Done(u) /\ req[u].status = 500 /\ "chain" \in req[u].ran
        /\ req[a].pre = <<req[u].vs, NoChain>>

\* C3: the file an /upload saved under TEMP_DIR is gone once the request has
\* returned, whatever its outcome; with no upload handler running, TEMP_DIR
\* holds no file.
C3_TempFileRemoved ==
    /\ \A u \in Uploads : Done(u) => \A f \in disk : f.by # u
    /\ NoUploadRunning => disk = {}

\* C3 witness: a successful upload, an empty-file rejection and a failed
\* pipeline have all saved a file and returned.
C3_Witness ==
    \E u, v, w \in Uploads :
        /\ Done(u) /\ req[u].wrote /\ req[u].status = 200
        /\ Done(v) /\ req[v].wrote /\ req[v].detail = "empty"
        /\ Done(w) /\ req[w].wrote /\ req[w].status = 500

\* C4: a ResourceExhausted raised by the embedding call of /upload or by the
\* chain invocation of /ask is answered 400 with the quota message; any other
\* exception raised inside the pipeline of /upload or inside the chain
\* invocation of /ask is answered 500.
C4_FailureClassification ==
    \A r \in Reqs :
        /\ req[r].exc = "ResourceExhausted" =>
               req[r].status = 400 /\ req[r].detail = "quota"
        /\ (req[r].exc = "Exception" /\ req[r].ran # {}) => req[r].status = 500

\* C4 witness: an /upload and an /ask have both hit the quota error.
C4_Witness ==
    \E u \in Uploads, a \in Asks :
        /\ Done(u) /\ req[u].exc = "ResourceExhausted"
        /\ Done(a) /\ req[a].exc = "ResourceExhausted"

\* C5: every chain invocation of /ask retrieves from the collection of the
\* upload that last returned success, and that collection holds the entries
\* of that upload's document only; successful uploads never share a
\* collection.
C5_OnlyLatestDocument ==
    /\ \A a \in Asks :
           "invoke" \in req[a].ran =>
               /\ req[a].okAt \in Uploads
               /\ req[a].used.db = req[req[a].okAt].vs
               /\ req[a].got = {req[req[a].okAt].doc}
    /\ \A u, v \in Uploads :
           (u # v /\ req[u].vs # 0 /\ req[v].vs # 0) => req[u].vs # req[v].vs

\* C5 witness: two uploads of different documents succeeded one after the
\* other, and a later /ask was answered from the second one's collection.
C5_Witness ==
    \E u, v \in Uploads, a \in Asks :
        /\ Succeeded(u) /\ Succeeded(v) /\ req[v].pre = SessionOf(u)
        /\ req[u].doc # req[v].doc
        /\ Succeeded(a) /\ req[a].pre = SessionOf(v) /\ req[a].okAt = v

\* C6: an /upload whose content type is not application/pdf is answered 400,
\* writes no file, runs no ingestion step and leaves the Session as it was;
\* an /upload of a zero-byte PDF is answered 400 (the file is empty), runs no
\* ingestion step and leaves the Session as it was.
C6_ValidationRejects ==
    \A u \in Uploads :
        Done(u) =>
            /\ req[u].ctype # "pdf" =>
                   /\ req[u].status = 400 /\ req[u].detail = "invalid_type"
                   /\ req[u].ran = {} /\ ~req[u].wrote
                   /\ LeftSessionAlone(u)
            /\ (req[u].ctype = "pdf" /\ req[u].size = 0) =>
                   /\ req[u].status = 400 /\ req[u].detail = "empty"
                   /\ req[u].ran = {}
                   /\ LeftSessionAlone(u)

\* C6 witness: with a document already processed, a non-PDF upload and an
\* empty-file upload have both been rejected.
C6_Witness ==
    \E u, v, w \in Uploads :
        /\ Succeeded(w)
        /\ Done(u) /\ req[u].ctype # "pdf" /\ req[u].pre = SessionOf(w)
        /\ Done(v) /\ req[v].size = 0 /\ req[v].wrote /\ req[v].pre = SessionOf(w)

\* The chain c was completely built: by create_rag_chain of an upload, over
\* the collection that same upload created and populated.
WholeChain(c) ==
    /\ c.by \in Uploads
    /\ c.db = req[c.by].vs
    /\ c.db \in 1..Len(collections)
    /\ collections[c.db].by = c.by
    /\ collections[c.db].populated

\* C7: whatever uploads are in flight, an /ask either finds no chain, is
\* answered not-ready and no upload has returned success, or invokes a chain
\* completely built over its own populated collection: the chain of the
\* upload that last returned success.
C7_AskSeesWholeSession ==
    \A a \in Asks :
        Done(a) =>
            IF req[a].used = NoChain
            THEN req[a].detail = "not_ready" /\ req[a].okAt = 0
            ELSE /\ req[a].detail # "not_ready"
                 /\ WholeChain(req[a].used)
                 /\ req[a].used.by = req[a].okAt

\* C7 witness: an /ask was answered from the prior Session while an upload of
\* another document, which arrived before the /ask, has still not returned.
C7_Witness ==
    \E a \in Asks, u \in Uploads :
        /\ Succeeded(a)
        /\ u < a /\ ~Done(u)
        /\ req[u].ctype = "pdf" /\ req[u].size # 0 /\ req[u].doc \notin req[a].got

\* C8: when the upload that returned last returned success, the Session is the
\* one it produced: vector_store is its collection and rag_chain the chain it
\* built over that collection.
C8_LastUploadWins ==
    \A u \in Uploads :
        (lastUp = u /\ Succeeded(u) /\ NoUploadRunning) => Session = SessionOf(u)

\* C8 witness: two successful uploads of different documents have both
\* returned, the one that arrived first returning last: they were in flight
\* at the same time.
C8_Witness ==
    \E u, v \in Uploads :
        /\ v < u /\ lastUp = v /\ req[u].doc # req[v].doc
        /\ Succeeded(u) /\ Succeeded(v)
        /\ NoUploadRunning

\* C9: with no upload running, vector_store and rag_chain are both None, or
\* rag_chain is the chain built over the current vector_store.
C9_SessionPaired ==
    NoUploadRunning =>
        \/ vector_store = 0 /\ rag_chain = NoChain
        \/ rag_chain # NoChain /\ vector_store # 0 /\ rag_chain.db = vector_store

\* C10: whenever the question box and the Ask button are interactive the
\* server's rag_chain is set, no /ask sent from the UI is answered not-ready,
\* and the controls are interactive exactly when the last upload_pdf call
\* got a success response (not at start, nor after a call that failed, timed
\* out or had no file).
C10_EnabledImpliesReady ==
    /\ ui_enabled => rag_chain # NoChain
    /\ \A a \in Asks : req[a].src = "ui" => req[a].detail # "not_ready"
    /\ ui_enabled <=> ui_last = "success"

\* C10 witness: the UI got an answer to an /ask, and a later upload_pdf call
\* that timed out has disabled the controls again.
C10_Witness ==
    /\ \E a \in Asks : req[a].src = "ui" /\ Succeeded(a)
    /\ ui_last = "timeout" /\ ~ui_enabled
====
